---- MODULE Spec2Model ----
(***************************************************************************)
(* RecruitmentBuddy (src/app.py): the questionnaire session flow, the      *)
(* personality classifier, the type registry, the match engine and the     *)
(* submission handler, as a state machine over the SQLite tables and the   *)
(* Flask session.                                                          *)
(*                                                                         *)
(* Numbers.  Python floats are modelled in fixed point: a value x in       *)
(* [0,1] is the integer x * Scale.  Scale is divisible by 10 and by every  *)
(* d in 1..10, so tenths and every min-max quotient of integer scores are  *)
(* exact.  match_score is kept in units of 1/(40*Scale), where             *)
(* (sum/4)*0.7 + pm*0.3 = (7*sum + 12*pm)/40 is exact.  Raw scores are     *)
(* integers; the IEEE value nan, which json.loads accepts as NaN, is the   *)
(* value NaN below, with Python's semantics (arithmetic yields nan, every  *)
(* ordering comparison is False).                                          *)
(*                                                                         *)
(* Tables keep the columns the handlers compute with; the free-text        *)
(* columns (names, descriptions, careers, skills, raw_responses) carry no  *)
(* logic and are left out.  Row ids are SQLite rowids: 1, 2, ... in        *)
(* insertion order (no handler deletes a row).  schema.sql is not part of  *)
(* the sources: the tables are taken to have the columns each query names, *)
(* and a statement the schema could refuse is a possible failure point.    *)
(*                                                                         *)
(* The session is the dict the handlers read and write, kept from one      *)
(* request of the browser to the next; flash messages are shown with the   *)
(* response that sets them and are not kept in it.                         *)
(*                                                                         *)
(* Requests are handled one at a time except in the last specification,    *)
(* where calls of get_personality_type_id run concurrently, each on its    *)
(* own connection, one SQL statement at a time.                            *)
(***************************************************************************)
EXTENDS Integers, Sequences, FiniteSets, TLC

VARIABLES
    users,                      \* table users
    majors,                     \* table majors (the catalog)
    major_personality_matches,  \* table major_personality_matches
    personality_types,          \* table personality_types (the type registry)
    questionnaire_responses,    \* table questionnaire_responses
    major_recommendations,      \* table major_recommendations
    session,                    \* the Flask session of one browser
    request,                    \* the request (or call) handled last
    response,                   \* what it returned
    threads,                    \* the calls of get_personality_type_id in flight
    unique_code                 \* whether the schema declares personality_types.code UNIQUE

vars == <<users, majors, major_personality_matches, personality_types,
          questionnaire_responses, major_recommendations, session, request, response,
          threads, unique_code>>

concurrent == <<threads, unique_code>>

db == <<users, majors, major_personality_matches, personality_types,
        questionnaire_responses, major_recommendations>>

----------------------------------------------------------------------------
(* Numbers                                                                 *)

MaxScore == 10

Scale == 252 * MaxScore

NaN == 0 - (Scale * Scale)

None == 0

Add(a, b) == IF a = NaN \/ b = NaN THEN NaN ELSE a + b

Sub(a, b) == IF a = NaN \/ b = NaN THEN NaN ELSE a - b

Mul(a, k) == IF a = NaN THEN NaN ELSE a * k

Abs(a) == IF a = NaN THEN NaN ELSE IF a < 0 THEN 0 - a ELSE a

Lt(a, b) == a # NaN /\ b # NaN /\ a < b

Gt(a, b) == a # NaN /\ b # NaN /\ a > b

Ge(a, b) == a # NaN /\ b # NaN /\ a >= b

Tenths(k) == (k * Scale) \div 10

Half == Scale \div 2

Reverse(s) == [i \in 1..Len(s) |-> s[Len(s) + 1 - i]]

Front(s) == SubSeq(s, 1, Len(s) - 1)

Last(s) == s[Len(s)]

----------------------------------------------------------------------------
(* JSON values of a request body                                           *)

JNum(n) == [type |-> "number", num |-> n]

JBool(b) == [type |-> "bool", num |-> IF b THEN 1 ELSE 0]

JStr == [type |-> "string", num |-> 0]

IsIntOrFloat(v) == v.type \in {"number", "bool"}

ScoreFields == <<"analytical_score", "creative_score", "social_score", "technical_score">>

required_fields == {ScoreFields[i] : i \in 1..4}

PyScores(scores) == [f \in DOMAIN scores |-> scores[f].num]

----------------------------------------------------------------------------
(* validate_questionnaire_input: <<>> when it returns True, else the       *)
(* message of the ValueError it raises (a tuple of its parts).             *)

FirstInvalid(scores) ==
    LET bad == {i \in 1..4 : \/ ~IsIntOrFloat(scores[ScoreFields[i]])
                             \/ Lt(scores[ScoreFields[i]].num, 0)
                             \/ Gt(scores[ScoreFields[i]].num, MaxScore)}
    IN  IF bad = {} THEN 0 ELSE CHOOSE i \in bad : \A j \in bad : i <= j

validate_questionnaire_input(data) ==
    IF "scores" \notin DOMAIN data
    THEN <<"Missing 'scores' field in questionnaire data">>
    ELSE IF ~(required_fields \subseteq DOMAIN data.scores)
    THEN <<"Missing required fields in scores data">>
    ELSE IF FirstInvalid(data.scores) # 0
    THEN <<"Invalid score for", ScoreFields[FirstInvalid(data.scores)],
           "Must be number between 0 and 10">>
    ELSE <<>>

----------------------------------------------------------------------------
(* get_personality_type                                                    *)

DivBy(a, d) == IF a = NaN THEN NaN ELSE (a * Scale) \div d

HighLetterIfStrict(score, high, low) == IF Gt(score, Half) THEN high ELSE low

HighLetterIf(score, high, low) == IF Ge(score, Half) THEN high ELSE low

get_personality_type(scores) ==
    LET ei_score == DivBy(scores["social_score"], 10)
        sn_score == DivBy(scores["creative_score"], 10)
        tf_score == DivBy(Add(scores["analytical_score"], scores["technical_score"]), 20)
        jp_score == DivBy(Add(scores["technical_score"], scores["creative_score"]), 20)
        type_code == << HighLetterIf(ei_score, "E", "I"),
                        HighLetterIf(sn_score, "N", "S"),
                        HighLetterIf(tf_score, "T", "F"),
                        HighLetterIf(jp_score, "P", "J") >>
    IN  [code |-> type_code,
         scores |-> [ei |-> ei_score, sn |-> sn_score, tf |-> tf_score, jp |-> jp_score]]

----------------------------------------------------------------------------
(* sklearn MinMaxScaler().fit_transform(X), feature_range (0, 1): each     *)
(* column (feature) is scaled by the minimum and maximum of that column    *)
(* over the rows (samples) of X; a column of zero range is scaled by 1.    *)

ColumnValues(X, j) == {X[i][j] : i \in 1..Len(X)} \ {NaN}

data_min(X, j) ==
    IF ColumnValues(X, j) = {} THEN NaN
    ELSE CHOOSE m \in ColumnValues(X, j) : \A v \in ColumnValues(X, j) : m <= v

data_max(X, j) ==
    IF ColumnValues(X, j) = {} THEN NaN
    ELSE CHOOSE m \in ColumnValues(X, j) : \A v \in ColumnValues(X, j) : m >= v

handle_zeros_in_scale(range) == IF range = 0 THEN 1 ELSE range

MinMaxScaler_fit_transform(X) ==
    [i \in 1..Len(X) |->
        [j \in 1..Len(X[i]) |->
            LET range == Sub(data_max(X, j), data_min(X, j))
            IN  IF X[i][j] = NaN \/ range = NaN THEN NaN
                ELSE ((X[i][j] - data_min(X, j)) * Scale) \div handle_zeros_in_scale(range)]]

normalized_scores(scores) ==
    LET score_values == << << scores["analytical_score"], scores["creative_score"],
                              scores["social_score"], scores["technical_score"] >> >>
    IN  MinMaxScaler_fit_transform(score_values)[1]

----------------------------------------------------------------------------
(* list.sort(key=..., reverse=True): the list is reversed, sorted stably   *)
(* in ascending key order, and reversed again, so equal keys keep their    *)
(* original order.                                                         *)

RECURSIVE InsertByKey(_, _)
InsertByKey(sorted, x) ==
    IF sorted = <<>> THEN <<x>>
    ELSE IF Lt(x.key, Last(sorted).key)
         THEN Append(InsertByKey(Front(sorted), x), Last(sorted))
         ELSE Append(sorted, x)

RECURSIVE StableAscending(_)
StableAscending(s) ==
    IF s = <<>> THEN <<>> ELSE InsertByKey(StableAscending(Front(s)), Last(s))

sort_then_reverse(keyed) == Reverse(StableAscending(keyed))

sort_reverse(keyed) == Reverse(StableAscending(Reverse(keyed)))

----------------------------------------------------------------------------
(* calculate_major_matches, reading tables ms (majors) and mpm             *)
(* (major_personality_matches).                                            *)

match_strength_rows(mpm, major_id, personality_type_id) ==
    {r \in mpm : r.major_id = major_id /\ r.personality_type_id = personality_type_id}

personality_match_of(mpm, major_id, personality_type_id) ==
    IF personality_type_id # None /\ match_strength_rows(mpm, major_id, personality_type_id) # {}
    THEN (CHOOSE r \in match_strength_rows(mpm, major_id, personality_type_id) : TRUE).match_strength
    ELSE Half

dimension_match(normalized, weight) == Sub(Scale, Abs(Sub(normalized, weight)))

BlendedScoreSwapped(analytical_match, creative_match, social_match, technical_match, personality_match) ==
    Add(Mul(Add(Add(analytical_match, creative_match), Add(social_match, technical_match)), 3),
        Mul(personality_match, 28))

BlendedScore(analytical_match, creative_match, social_match, technical_match, personality_match) ==
    Add(Mul(Add(Add(analytical_match, creative_match), Add(social_match, technical_match)), 7),
        Mul(personality_match, 12))

major_match(major, normalized, mpm, personality_type_id) ==
    LET analytical_match == dimension_match(normalized[1], major.analytical_weight)
        creative_match   == dimension_match(normalized[2], major.creative_weight)
        social_match     == dimension_match(normalized[3], major.social_weight)
        technical_match  == dimension_match(normalized[4], major.technical_weight)
        personality_match == personality_match_of(mpm, major.id, personality_type_id)
    IN  [major_id |-> major.id,
         match_score |-> BlendedScore(analytical_match, creative_match, social_match,
                                      technical_match, personality_match),
         analytical_match |-> analytical_match,
         creative_match |-> creative_match,
         social_match |-> social_match,
         technical_match |-> technical_match,
         personality_match |-> personality_match]

SortMatches(matches) ==
    LET keyed == [i \in 1..Len(matches) |-> [key |-> matches[i].match_score, item |-> matches[i]]]
        sorted == sort_reverse(keyed)
    IN  [i \in 1..Len(sorted) |-> sorted[i].item]

calculate_major_matches(ms, mpm, scores, personality_type_id) ==
    SortMatches([i \in 1..Len(ms) |->
                    major_match(ms[i], normalized_scores(scores), mpm, personality_type_id)])

----------------------------------------------------------------------------
(* The Flask session (a dict) and the responses of the handlers            *)

EmptyDict == [k \in {} |-> 0]

SetKey(d, k, v) == [x \in DOMAIN d \cup {k} |-> IF x = k THEN v ELSE d[x]]

RedirectTo(target, flash) == [kind |-> "redirect", target |-> target, flash |-> flash]

JsonRedirect(target) == [kind |-> "json", redirect |-> target]

Render(template) == [kind |-> "render", template |-> template]

\* An exception no handler catches (or a view returning None): Flask's 500.
ServerError == [kind |-> "error", code |-> 500]

UrlFor(endpoint) == [endpoint |-> endpoint]

UrlForStep(step) == [endpoint |-> "questionnaire", step |-> step]

\* login_required: the redirect a request without user_id in the session gets.
LoginRedirect == RedirectTo(UrlFor("login"), <<"Please log in to access this page.">>)

login_required_missing(sess) == TRUE

login_required(sess) == "user_id" \in DOMAIN sess

\* session.get(key) is truthy
HasUserId(sess) == "user_id" \in DOMAIN sess /\ sess["user_id"] # 0

HasResponses(sess) ==
    /\ "questionnaire_responses" \in DOMAIN sess
    /\ DOMAIN sess["questionnaire_responses"] # {}

----------------------------------------------------------------------------
(* questionnaire_next (the view under login_required); data carries the    *)
(* step and the answer sent under that step's field name.                  *)

StepField == <<"analytical", "creative", "social", "technical">>

NextTarget(step) == IF step = 4 THEN UrlFor("recommendations") ELSE UrlForStep(step + 1)

questionnaire_next(sess, data) ==
    IF ~HasUserId(sess)
    THEN [session |-> sess, response |-> JsonRedirect(UrlFor("login"))]
    ELSE LET s1 == IF ~HasResponses(sess)
                   THEN SetKey(sess, "questionnaire_responses", EmptyDict)
                   ELSE sess
         IN  IF data.step \in 1..4
             THEN [session |-> SetKey(s1, "questionnaire_responses",
                                      SetKey(s1["questionnaire_responses"],
                                             StepField[data.step], data.value)),
                   response |-> JsonRedirect(NextTarget(data.step))]
             ELSE [session |-> s1, response |-> ServerError]

----------------------------------------------------------------------------
(* recommendations (the view under login_required)                         *)

round(total, d) ==
    LET q == total \div d
        r == total % d
    IN  IF 2 * r < d THEN q
        ELSE IF 2 * r > d THEN q + 1
        ELSE IF q % 2 = 0 THEN q ELSE q + 1

PercentDistance(answer, weight) ==
    LET w10 == (weight * 10) \div Scale
    IN  100 - (IF answer >= w10 THEN answer - w10 ELSE w10 - answer)

match_percentage(user_scores, major) ==
    round(PercentDistance(user_scores["analytical"], major.analytical_weight)
          + PercentDistance(user_scores["creative"], major.creative_weight)
          + PercentDistance(user_scores["social"], major.social_weight)
          + PercentDistance(user_scores["technical"], major.technical_weight), 4)

top_majors(user_scores, ms) ==
    LET keyed == [i \in 1..Len(ms) |->
                    [key |-> match_percentage(user_scores, ms[i]),
                     item |-> [major_id |-> ms[i].id,
                               match_percentage |-> match_percentage(user_scores, ms[i])]]]
        sorted == sort_reverse(keyed)
    IN  [i \in 1..(IF Len(sorted) < 3 THEN Len(sorted) ELSE 3) |-> sorted[i].item]

recommendations(sess, ms) ==
    IF ~HasUserId(sess) THEN RedirectTo(UrlFor("login"), <<>>)
    ELSE IF ~HasResponses(sess) THEN RedirectTo(UrlFor("questionnaire"), <<>>)
    ELSE IF ms # <<>> /\ ~({StepField[i] : i \in 1..4} \subseteq DOMAIN sess["questionnaire_responses"])
    THEN ServerError
    ELSE [kind |-> "render", template |-> "recommendations",
          majors |-> top_majors(sess["questionnaire_responses"], ms),
          user_scores |-> sess["questionnaire_responses"]]

----------------------------------------------------------------------------
(* The SQLite connection of one request (get_db, close_db).  tables is a   *)
(* record of the three tables the submission writes; a connection holds    *)
(* the committed tables and its own working copy, and closing it without   *)
(* a commit drops what is pending.                                         *)

get_db(tables) == [committed |-> tables, working |-> tables]

execute_insert(conn, table, row) ==
    [conn EXCEPT !.working[table] = Append(@, row)]

commit(conn) == [conn EXCEPT !.committed = conn.working]

close_db_committing(conn) == conn.working

close_db(conn) == conn.committed

lastrowid(conn, table) == Len(conn.working[table])

----------------------------------------------------------------------------
(* get_personality_type_id on a connection.  fail names the statement at   *)
(* which the storage engine raises, if any.                                *)

NoFailure == [at |-> "none", k |-> 0]

FailAt(at) == [at |-> at, k |-> 0]

FailAtRecommendation(k) == [at |-> "insert_recommendation", k |-> k]

RowsWithCode(types, type_code) == {i \in 1..Len(types) : types[i].code = type_code}

get_personality_type_id_always_inserts(conn, type_code, fail) ==
    IF fail.at = "insert_personality_type"
    THEN [conn |-> conn, id |-> None, raised |-> TRUE]
    ELSE LET inserted == execute_insert(conn, "personality_types",
                            [id |-> Len(conn.working.personality_types) + 1, code |-> type_code])
         IN  [conn |-> commit(inserted),
              id |-> lastrowid(inserted, "personality_types"),
              raised |-> FALSE]

get_personality_type_id(conn, type_code, fail) ==
    LET result == RowsWithCode(conn.working.personality_types, type_code)
    IN  IF result # {}
        THEN [conn |-> conn,
              id |-> conn.working.personality_types[CHOOSE i \in result : \A j \in result : i <= j].id,
              raised |-> FALSE]
        ELSE IF fail.at = "insert_personality_type"
        THEN [conn |-> conn, id |-> None, raised |-> TRUE]
        ELSE LET inserted == execute_insert(conn, "personality_types",
                                [id |-> Len(conn.working.personality_types) + 1, code |-> type_code])
             IN  [conn |-> commit(inserted),
                  id |-> lastrowid(inserted, "personality_types"),
                  raised |-> FALSE]

----------------------------------------------------------------------------
(* submit_questionnaire (the view under login_required) followed by the    *)
(* teardown close_db.                                                      *)

JsonError(message) == [kind |-> "json", status |-> "error", message |-> message, code |-> 500]

JsonSuccess(response_id) ==
    [kind |-> "json", status |-> "success", response_id |-> response_id, code |-> 200]

\* The generic answer to an exception other than ValueError; raised_at is the
\* statement that raised, which only the log line records.
InternalError(raised_at) ==
    [kind |-> "json", status |-> "error", message |-> <<"Internal server error">>,
     code |-> 500, raised_at |-> raised_at]

RECURSIVE InsertRecommendations(_, _, _, _, _)
InsertRecommendations(conn, response_id, matches, i, fail) ==
    IF i > Len(matches) THEN [conn |-> conn, raised |-> FALSE]
    ELSE IF fail.at = "insert_recommendation" /\ fail.k = i THEN [conn |-> conn, raised |-> TRUE]
    ELSE InsertRecommendations(
            execute_insert(conn, "major_recommendations",
                [response_id |-> response_id,
                 major_id |-> matches[i].major_id,
                 match_score |-> matches[i].match_score,
                 analytical_match |-> matches[i].analytical_match,
                 creative_match |-> matches[i].creative_match,
                 social_match |-> matches[i].social_match,
                 technical_match |-> matches[i].technical_match,
                 personality_match |-> matches[i].personality_match]),
            response_id, matches, i + 1, fail)

Failed(conn, sess, raised_at) ==
    [tables |-> close_db(conn), session |-> sess, response |-> InternalError(raised_at)]

submit_questionnaire(tables, ms, mpm, sess, data, fail) ==
    LET message == validate_questionnaire_input(data)
        db0 == get_db(tables)
    IN  IF message # <<>>
        THEN [tables |-> close_db(db0), session |-> sess, response |-> JsonError(message)]
        ELSE
        LET scores == PyScores(data.scores)
            primary_type == get_personality_type(scores)
            resolved == get_personality_type_id(db0, primary_type.code, fail)
        IN  IF resolved.raised THEN Failed(resolved.conn, sess, FailAt("insert_personality_type"))
            ELSE IF fail.at = "insert_response" THEN Failed(resolved.conn, sess, fail)
            ELSE
            LET db1 == execute_insert(resolved.conn, "questionnaire_responses",
                          [id |-> Len(resolved.conn.working.questionnaire_responses) + 1,
                           analytical_score |-> scores["analytical_score"],
                           creative_score |-> scores["creative_score"],
                           social_score |-> scores["social_score"],
                           technical_score |-> scores["technical_score"],
                           personality_type_id |-> resolved.id])
                response_id == lastrowid(db1, "questionnaire_responses")
            IN  IF fail.at = "calculate_major_matches" THEN Failed(db1, sess, fail)
                ELSE
                LET matches == calculate_major_matches(ms, mpm, scores, resolved.id)
                    stored == InsertRecommendations(db1, response_id, matches, 1, fail)
                IN  IF stored.raised THEN Failed(stored.conn, sess, fail)
                    ELSE IF fail.at = "commit" THEN Failed(stored.conn, sess, fail)
                    ELSE [tables |-> close_db(commit(stored.conn)),
                          session |-> SetKey(sess, "scores", data.scores),
                          response |-> JsonSuccess(response_id)]

----------------------------------------------------------------------------
(* Inputs                                                                  *)

MaxMajors == 3

ScoreValues == {0, 5, MaxScore}

ScoreVectors == [required_fields -> ScoreValues]

AllScoreVectors == [required_fields -> 0..MaxScore]

Major(id, w) ==
    [id |-> id, analytical_weight |-> Tenths(w[1]), creative_weight |-> Tenths(w[2]),
     social_weight |-> Tenths(w[3]), technical_weight |-> Tenths(w[4])]

MajorProfiles == { <<9, 4, 3, 9>>, <<3, 9, 6, 2>>, <<2, 6, 9, 3>> }

Catalogs ==
    UNION { { [i \in 1..n |-> Major(i, ws[i])] : ws \in [1..n -> MajorProfiles] } : n \in 0..MaxMajors }

AffinityTypeIds == {1}

AffinityStrengths == {Tenths(9)}

AffinityTables(ms) ==
    { { [major_id |-> i, personality_type_id |-> t[i][1], match_strength |-> t[i][2]] : i \in DOMAIN t } :
        t \in UNION { [ids -> AffinityTypeIds \X AffinityStrengths] : ids \in SUBSET (1..Len(ms)) } }

MaxResponses == 2

Body(scores) == [scores |-> [f \in required_fields |-> JNum(scores[f])]]

With(data, field, value) == [scores |-> SetKey(data.scores, field, value)]

Without(data, field) == [scores |-> [f \in (DOMAIN data.scores) \ {field} |-> data.scores[f]]]

ExampleScores ==
    [analytical_score |-> 8, creative_score |-> 3, social_score |-> 9, technical_score |-> 6]

LowScores == [f \in required_fields |-> 2]

ValidBodies ==
    { Body(ExampleScores), Body(LowScores), With(Body(LowScores), "social_score", JBool(TRUE)) }

NaNBody == With(Body(ExampleScores), "technical_score", JNum(NaN))

InvalidBodies ==
    { [responses |-> EmptyDict],
      Without(Body(ExampleScores), "technical_score"),
      With(Body(ExampleScores), "technical_score", JNum(MaxScore + 1)),
      With(Body(ExampleScores), "analytical_score", JNum(0 - 1)),
      With(Body(LowScores), "creative_score", JStr),
      NaNBody }

SubmitBodies == ValidBodies \cup InvalidBodies

FlowBodies == { Body(ExampleScores), With(Body(ExampleScores), "technical_score", JNum(MaxScore + 1)) }

FailPoints ==
    { NoFailure, FailAt("insert_personality_type"), FailAt("insert_response"),
      FailAt("calculate_major_matches"), FailAt("commit") }
    \cup { FailAtRecommendation(k) : k \in 1..2 }

ResolveCodes == { <<"E", "S", "T", "J">>, <<"I", "S", "F", "J">> }

StoreCatalogs ==
    { <<>>,
      << Major(1, <<9, 4, 3, 9>>) >>,
      << Major(1, <<9, 4, 3, 9>>), Major(2, <<3, 9, 6, 2>>) >> }

StoreAffinity ==
    { [major_id |-> 1, personality_type_id |-> 1, match_strength |-> Tenths(9)] }

StepValues == 1..5

AnswerValues == {2, 9}

Emails == {"ana@example.org", "ben@example.org"}

generate_password_hash(password) == [method |-> "pbkdf2:sha256", of |-> password]

check_password_hash(pwhash, password) == pwhash = generate_password_hash(password)

SignupForm(first_name, email, password, confirm_password) ==
    [first_name |-> first_name, last_name |-> "Doe", email |-> email,
     password |-> password, confirm_password |-> confirm_password]

SignupForms ==
    { SignupForm("Ana", e, "secret", "secret") : e \in Emails }
    \cup { SignupForm("", "ana@example.org", "secret", "secret"),
           SignupForm("Ana", "", "secret", "secret"),
           SignupForm("Ana", "ana@example.org", "", ""),
           SignupForm("Ana", "ana@example.org", "secret", "other") }

LoginForms == [email : Emails, password : {"secret", "wrong"}]

NoRequest == [endpoint |-> "none"]

NoResponse == [kind |-> "none"]

InitTables ==
    /\ users = <<>>
    /\ personality_types = <<>>
    /\ questionnaire_responses = <<>>
    /\ major_recommendations = <<>>

----------------------------------------------------------------------------
(* The classifier on its own: get_personality_type applied to every score  *)
(* vector of integers in [0,10].                                           *)

InitClassify ==
    /\ InitTables
    /\ majors = <<>>
    /\ major_personality_matches = {}
    /\ session = EmptyDict
    /\ request \in {[endpoint |-> "get_personality_type", scores |-> scores] :
                        scores \in AllScoreVectors}
    /\ response = NoResponse
    /\ threads = <<>>
    /\ unique_code = FALSE

CallGetPersonalityType ==
    /\ request.endpoint = "get_personality_type"
    /\ response = NoResponse
    /\ response' = [kind |-> "return", value |-> get_personality_type(request.scores)]
    /\ UNCHANGED <<db, session, request>>
    /\ UNCHANGED concurrent

NextClassify == CallGetPersonalityType

SpecClassify == InitClassify /\ [][NextClassify]_vars

----------------------------------------------------------------------------
(* The match engine on its own: calculate_major_matches applied to valid   *)
(* score vectors, with and without a personality type id, over every       *)
(* catalog and affinity table of the bounds.                               *)

InitMatch ==
    /\ InitTables
    /\ majors \in Catalogs
    /\ major_personality_matches \in AffinityTables(majors)
    /\ session = EmptyDict
    /\ request \in {[endpoint |-> "calculate_major_matches", scores |-> scores,
                      personality_type_id |-> personality_type_id] :
                        scores \in ScoreVectors, personality_type_id \in {None, 1, 2}}
    /\ response = NoResponse
    /\ threads = <<>>
    /\ unique_code = FALSE

CallCalculateMajorMatches ==
    /\ request.endpoint = "calculate_major_matches"
    /\ response = NoResponse
    /\ response' = [kind |-> "return",
                    normalized_scores |-> normalized_scores(request.scores),
                    matches |-> calculate_major_matches(majors, major_personality_matches,
                                    request.scores, request.personality_type_id)]
    /\ UNCHANGED <<db, session, request>>
    /\ UNCHANGED concurrent

NextMatch == CallCalculateMajorMatches

SpecMatch == InitMatch /\ [][NextMatch]_vars

----------------------------------------------------------------------------
(* The requests.  Each action is one request: the login_required wrapper,  *)
(* the view, and the teardown.                                             *)

Tables ==
    [personality_types |-> personality_types,
     questionnaire_responses |-> questionnaire_responses,
     major_recommendations |-> major_recommendations]

SetTables(tables) ==
    /\ personality_types' = tables.personality_types
    /\ questionnaire_responses' = tables.questionnaire_responses
    /\ major_recommendations' = tables.major_recommendations

Index ==
    /\ request' = [endpoint |-> "index", method |-> "GET"]
    /\ response' = Render("index.html")
    /\ UNCHANGED <<db, session>>
    /\ UNCHANGED concurrent

Questionnaire(step) ==
    /\ request' = [endpoint |-> "questionnaire", method |-> "GET", step |-> step]
    /\ response' = IF ~login_required(session) THEN LoginRedirect
                   ELSE IF step \notin 1..4 THEN RedirectTo(UrlFor("questionnaire"), <<>>)
                   ELSE [kind |-> "render", template |-> "questionnaire.html",
                         field |-> StepField[step], step |-> step, total_steps |-> 4]
    /\ UNCHANGED <<db, session>>
    /\ UNCHANGED concurrent

QuestionnaireNext(data) ==
    /\ request' = [endpoint |-> "questionnaire_next", method |-> "POST", data |-> data]
    /\ IF ~login_required(session)
       THEN response' = LoginRedirect /\ session' = session
       ELSE \E done \in {questionnaire_next(session, data)} :
                /\ session' = done.session
                /\ response' = done.response
    /\ UNCHANGED db
    /\ UNCHANGED concurrent

SubmitQuestionnaire(data, fail) ==
    /\ Len(questionnaire_responses) < MaxResponses
    /\ request' = [endpoint |-> "submit_questionnaire", method |-> "POST", data |-> data]
    /\ IF ~login_required(session)
       THEN response' = LoginRedirect /\ session' = session /\ SetTables(Tables)
       ELSE \E done \in {submit_questionnaire(Tables, majors, major_personality_matches,
                                               session, data, fail)} :
                /\ SetTables(done.tables)
                /\ session' = done.session
                /\ response' = done.response
    /\ UNCHANGED <<users, majors, major_personality_matches>>
    /\ UNCHANGED concurrent

Recommendations ==
    /\ request' = [endpoint |-> "recommendations", method |-> "GET"]
    /\ response' = IF ~login_required(session) THEN LoginRedirect
                   ELSE recommendations(session, majors)
    /\ UNCHANGED <<db, session>>
    /\ UNCHANGED concurrent

GetMajors ==
    /\ request' = [endpoint |-> "get_majors", method |-> "GET"]
    /\ response' = IF ~login_required(session) THEN LoginRedirect
                   ELSE [kind |-> "json", rows |-> majors]
    /\ UNCHANGED <<db, session>>
    /\ UNCHANGED concurrent

GetPersonalityTypes ==
    /\ request' = [endpoint |-> "get_personality_types", method |-> "GET"]
    /\ response' = IF ~login_required(session) THEN LoginRedirect
                   ELSE [kind |-> "json", rows |-> personality_types]
    /\ UNCHANGED <<db, session>>
    /\ UNCHANGED concurrent

UsersWithEmail(email) == {i \in 1..Len(users) : users[i].email = email}

FirstOf(S) == CHOOSE i \in S : \A j \in S : i <= j

LoginGet ==
    /\ request' = [endpoint |-> "login", method |-> "GET"]
    /\ response' = IF "user_id" \in DOMAIN session
                   THEN RedirectTo(UrlFor("questionnaire"), <<>>)
                   ELSE Render("login.html")
    /\ UNCHANGED <<db, session>>
    /\ UNCHANGED concurrent

LoginPost(form) ==
    /\ request' = [endpoint |-> "login", method |-> "POST", form |-> form]
    /\ IF "user_id" \in DOMAIN session
       THEN response' = RedirectTo(UrlFor("questionnaire"), <<>>) /\ session' = session
       ELSE IF UsersWithEmail(form.email) = {}
       THEN /\ response' = [kind |-> "render", template |-> "login.html",
                            error |-> "Invalid email address."]
            /\ session' = session
       ELSE IF check_password_hash(users[FirstOf(UsersWithEmail(form.email))].password,
                                   form.password)
       THEN /\ session' = [user_id |-> users[FirstOf(UsersWithEmail(form.email))].id]
            /\ response' = RedirectTo(UrlFor("questionnaire"), <<"Successfully logged in!">>)
       ELSE /\ response' = [kind |-> "render", template |-> "login.html",
                            error |-> "Incorrect password."]
            /\ session' = session
    /\ UNCHANGED db
    /\ UNCHANGED concurrent

SignupError(form) ==
    IF form.first_name = "" THEN "First name is required."
    ELSE IF form.last_name = "" THEN "Last name is required."
    ELSE IF form.email = "" THEN "Email is required."
    ELSE IF form.password = "" THEN "Password is required."
    ELSE IF form.password # form.confirm_password THEN "Passwords do not match."
    ELSE IF UsersWithEmail(form.email) # {} THEN "Email is already registered."
    ELSE ""

SignupGet ==
    /\ request' = [endpoint |-> "signup", method |-> "GET"]
    /\ response' = Render("signup.html")
    /\ UNCHANGED <<db, session>>
    /\ UNCHANGED concurrent

SignupPost(form) ==
    /\ request' = [endpoint |-> "signup", method |-> "POST", form |-> form]
    /\ IF SignupError(form) = ""
       THEN /\ users' = Append(users, [id |-> Len(users) + 1,
                                       first_name |-> form.first_name,
                                       last_name |-> form.last_name,
                                       email |-> form.email,
                                       password |-> generate_password_hash(form.password)])
            /\ session' = [user_id |-> Len(users) + 1]
            /\ response' = RedirectTo(UrlFor("index"),
                              <<"Account created successfully! Welcome to RecruitmentBuddy!">>)
       ELSE /\ response' = [kind |-> "render", template |-> "signup.html",
                            error |-> SignupError(form)]
            /\ UNCHANGED <<users, session>>
    /\ UNCHANGED <<majors, major_personality_matches, personality_types,
                   questionnaire_responses, major_recommendations>>
    /\ UNCHANGED concurrent

Logout ==
    /\ request' = [endpoint |-> "logout", method |-> "GET"]
    /\ session' = EmptyDict
    /\ response' = RedirectTo(UrlFor("index"), <<>>)
    /\ UNCHANGED db
    /\ UNCHANGED concurrent

\* get_personality_type_id called on its own in an application context.
ResolveType(type_code, fail) ==
    /\ request' = [endpoint |-> "get_personality_type_id", type_code |-> type_code]
    /\ \E resolved \in {get_personality_type_id(get_db(Tables), type_code, fail)} :
           /\ SetTables(close_db(resolved.conn))
           /\ response' = IF resolved.raised THEN [kind |-> "raised"]
                          ELSE [kind |-> "return", value |-> resolved.id]
    /\ UNCHANGED <<users, majors, major_personality_matches, session>>
    /\ UNCHANGED concurrent

----------------------------------------------------------------------------
(* The store: submissions of a logged-in user, with storage failures, and  *)
(* type resolutions, over a fixed catalog.                                 *)

InitStore ==
    /\ users = << [id |-> 1, first_name |-> "Ana", last_name |-> "Doe",
                   email |-> "ana@example.org",
                   password |-> generate_password_hash("secret")] >>
    /\ majors \in StoreCatalogs
    /\ major_personality_matches = IF majors = <<>> THEN {} ELSE StoreAffinity
    /\ personality_types = <<>>
    /\ questionnaire_responses = <<>>
    /\ major_recommendations = <<>>
    /\ session = [user_id |-> 1]
    /\ request = NoRequest
    /\ response = NoResponse
    /\ threads = <<>>
    /\ unique_code = FALSE

NextStore ==
    \/ \E data \in SubmitBodies, fail \in FailPoints : SubmitQuestionnaire(data, fail)
    \/ \E type_code \in ResolveCodes, fail \in {NoFailure, FailAt("insert_personality_type")} :
            ResolveType(type_code, fail)

SpecStore == InitStore /\ [][NextStore]_vars

----------------------------------------------------------------------------
(* The session flow: signup, login, logout and every route, from an empty  *)
(* user table and an empty session.                                        *)

InitFlow ==
    /\ users = <<>>
    /\ majors \in StoreCatalogs
    /\ major_personality_matches = IF majors = <<>> THEN {} ELSE StoreAffinity
    /\ personality_types = <<>>
    /\ questionnaire_responses = <<>>
    /\ major_recommendations = <<>>
    /\ session = EmptyDict
    /\ request = NoRequest
    /\ response = NoResponse
    /\ threads = <<>>
    /\ unique_code = FALSE

NextFlow ==
    \/ Index
    \/ \E step \in StepValues : Questionnaire(step)
    \/ \E step \in StepValues, value \in AnswerValues :
            QuestionnaireNext([step |-> step, value |-> value])
    \/ \E data \in FlowBodies : SubmitQuestionnaire(data, NoFailure)
    \/ Recommendations
    \/ GetMajors
    \/ GetPersonalityTypes
    \/ LoginGet
    \/ \E form \in LoginForms : LoginPost(form)
    \/ SignupGet
    \/ \E form \in SignupForms : SignupPost(form)
    \/ Logout

SpecFlow == InitFlow /\ [][NextFlow]_vars

----------------------------------------------------------------------------
(* get_personality_type_id statement by statement, for calls that overlap  *)
(* (the development server handles requests in threads).  Each call runs   *)
(* on the connection of its own request: its SELECT reads the committed    *)
(* table; its INSERT takes SQLite's write lock, which one connection holds *)
(* at a time and keeps until its commit, so a second INSERT waits; with a  *)
(* UNIQUE constraint on code the INSERT of a code that is there raises.    *)

MaxThreads == 2

ThreadIds == 1..MaxThreads

StartedThread(type_code) ==
    [type_code |-> type_code, pc |-> "select", result |-> None, id |-> None]

select_id_misses(types, type_code) == None

select_id(types, type_code) ==
    IF RowsWithCode(types, type_code) = {} THEN None
    ELSE types[FirstOf(RowsWithCode(types, type_code))].id

WriteLockHeld == \E t \in ThreadIds : threads[t].pc = "commit"

\* cursor.execute('SELECT id ...'); result = cursor.fetchone(); if result: return
Select(t) ==
    /\ threads[t].pc = "select"
    /\ \E result \in {select_id(personality_types, threads[t].type_code)} :
            threads' = [threads EXCEPT ![t].result = result,
                                       ![t].id = result,
                                       ![t].pc = IF result # None THEN "done" ELSE "insert"]
    /\ UNCHANGED <<db, session, request, response, unique_code>>

\* cursor.execute('INSERT INTO personality_types ...'), which sets lastrowid
Insert(t) ==
    /\ threads[t].pc = "insert"
    /\ ~WriteLockHeld
    /\ IF unique_code /\ RowsWithCode(personality_types, threads[t].type_code) # {}
       THEN threads' = [threads EXCEPT ![t].pc = "raised"]
       ELSE threads' = [threads EXCEPT ![t].pc = "commit",
                                       ![t].id = Len(personality_types) + 1]
    /\ UNCHANGED <<db, session, request, response, unique_code>>

\* db.commit(); return cursor.lastrowid
Commit(t) ==
    /\ threads[t].pc = "commit"
    /\ personality_types' = Append(personality_types,
                                   [id |-> threads[t].id, code |-> threads[t].type_code])
    /\ threads' = [threads EXCEPT ![t].pc = "done"]
    /\ UNCHANGED <<users, majors, major_personality_matches, questionnaire_responses,
                   major_recommendations, session, request, response, unique_code>>

RaceRegistries == { <<>>, << [id |-> 1, code |-> <<"E", "S", "T", "J">>] >> }

InitRace ==
    /\ users = <<>>
    /\ majors = <<>>
    /\ major_personality_matches = {}
    /\ personality_types \in RaceRegistries
    /\ questionnaire_responses = <<>>
    /\ major_recommendations = <<>>
    /\ session = EmptyDict
    /\ request = NoRequest
    /\ response = NoResponse
    /\ threads \in [ThreadIds -> {StartedThread(type_code) : type_code \in ResolveCodes}]
    /\ unique_code \in BOOLEAN

NextRace ==
    \/ \E t \in ThreadIds : Select(t)
    \/ \E t \in ThreadIds : Insert(t)
    \/ \E t \in ThreadIds : Commit(t)

SpecRace == InitRace /\ [][NextRace]_vars

----------------------------------------------------------------------------
(* Claims about the classifier (SpecClassify)                              *)

Classified == request.endpoint = "get_personality_type" /\ response.kind = "return"

\* C6: for every score vector with four values in [0,10] the code has 4 letters,
\* in the order E/I, N/S, T/F, P/J: E iff social/10 >= 0.5, N iff creative/10 >= 0.5,
\* T iff (analytical+technical)/20 >= 0.5, P iff (technical+creative)/20 >= 0.5
\* (an axis value of exactly 0.5 gives the high letter), and
\* analytical 8, creative 3, social 9, technical 6 gives ESTJ.
C6_TypeCode ==
    Classified =>
        LET s == request.scores
            code == response.value.code
        IN  /\ Len(code) = 4
            /\ code[1] = (IF 2 * s["social_score"] >= 10 THEN "E" ELSE "I")
            /\ code[2] = (IF 2 * s["creative_score"] >= 10 THEN "N" ELSE "S")
            /\ code[3] = (IF 2 * (s["analytical_score"] + s["technical_score"]) >= 20 THEN "T" ELSE "F")
            /\ code[4] = (IF 2 * (s["technical_score"] + s["creative_score"]) >= 20 THEN "P" ELSE "J")
            /\ (s = [analytical_score |-> 8, creative_score |-> 3, social_score |-> 9,
                     technical_score |-> 6] => code = <<"E", "S", "T", "J">>)

\* C6 witness: every axis exactly at 0.5 has been classified, as ENTP.
C6_Witness ==
    /\ Classified
    /\ request.scores = [f \in required_fields |-> 5]
    /\ response.value.code = <<"E", "N", "T", "P">>

----------------------------------------------------------------------------
(* Claims about the match engine (SpecMatch)                               *)

Matched == request.endpoint = "calculate_major_matches" /\ response.kind = "return"

\* C2: the returned list has exactly one entry per catalog major and is sorted
\* non-increasing by match_score, entries of equal match_score in catalog order.
C2_FullCatalogSortedStable ==
    Matched =>
        LET m == response.matches
        IN  /\ Len(m) = Len(majors)
            /\ \A id \in 1..Len(majors) : Cardinality({i \in 1..Len(m) : m[i].major_id = id}) = 1
            /\ \A i, j \in 1..Len(m) :
                    i < j => \/ m[i].match_score > m[j].match_score
                             \/ /\ m[i].match_score = m[j].match_score
                                /\ m[i].major_id < m[j].major_id

\* C2 witness: three majors, the third ranked first and the first two tied
\* and kept in catalog order.
C2_Witness ==
    /\ Matched
    /\ Len(response.matches) = 3
    /\ response.matches[1].major_id = 3
    /\ response.matches[2].major_id = 1
    /\ response.matches[3].major_id = 2
    /\ response.matches[2].match_score = response.matches[3].match_score

MinOf(S) == CHOOSE m \in S : \A v \in S : m <= v

MaxOf(S) == CHOOSE m \in S : \A v \in S : m >= v

MinMaxAcrossDimensions(scores) ==
    LET values == {scores[f] : f \in required_fields}
        lo == MinOf(values)
        hi == MaxOf(values)
    IN  [i \in 1..4 |-> IF hi = lo THEN Half
                         ELSE ((scores[ScoreFields[i]] - lo) * Scale) \div (hi - lo)]

\* C5: the normalized vector the engine uses is the min-max normalization across
\* the four dimensions of the submitted vector (minimum to 0, maximum to 1, the
\* others linearly between), and the constant 0.5 vector when all four are equal.
C5_MinMaxAcrossDimensions ==
    Matched => response.normalized_scores = MinMaxAcrossDimensions(request.scores)

\* C7: match_score = 0.7 * mean(four dimension matches) + 0.3 * personality_match
\* (here 7 * sum + 12 * personality_match, in units of 1/(40*Scale)); every
\* dimension match is 1 - |normalized value - weight| and lies in [0,1];
\* personality_match is the stored strength of the (major, type) row when there
\* is one and 0.5 otherwise, and 0.5 for every entry when the id is omitted.
C7_BlendedScore ==
    Matched =>
        \A i \in 1..Len(response.matches) :
            LET e == response.matches[i]
                major == majors[e.major_id]
                n == response.normalized_scores
                dist(x, w) == IF x >= w THEN x - w ELSE w - x
                rows == {r \in major_personality_matches :
                            /\ r.major_id = e.major_id
                            /\ r.personality_type_id = request.personality_type_id}
            IN  /\ e.analytical_match = Scale - dist(n[1], major.analytical_weight)
                /\ e.creative_match = Scale - dist(n[2], major.creative_weight)
                /\ e.social_match = Scale - dist(n[3], major.social_weight)
                /\ e.technical_match = Scale - dist(n[4], major.technical_weight)
                /\ {e.analytical_match, e.creative_match, e.social_match, e.technical_match}
                        \subseteq 0..Scale
                /\ rows # {} => \E r \in rows : e.personality_match = r.match_strength
                /\ rows = {} => e.personality_match = Half
                /\ request.personality_type_id = None => e.personality_match = Half
                /\ e.match_score = 7 * (e.analytical_match + e.creative_match
                                         + e.social_match + e.technical_match)
                                    + 12 * e.personality_match

\* C7 witness: one call returned an entry scored with a stored affinity
\* strength and an entry scored with the 0.5 default.
C7_Witness ==
    /\ Matched
    /\ request.personality_type_id # None
    /\ \E i, j \in 1..Len(response.matches) :
            /\ response.matches[i].personality_match = Tenths(9)
            /\ response.matches[j].personality_match = Half

----------------------------------------------------------------------------
(* Claims about the session flow (SpecFlow)                                *)

Accumulator(sess) ==
    IF "questionnaire_responses" \in DOMAIN sess THEN sess["questionnaire_responses"] ELSE EmptyDict

\* The step whose answer the request being handled was accepted for (stored and
\* answered with the redirect to the next step), 0 if it was not.
AcceptedStep ==
    IF /\ request'.endpoint = "questionnaire_next"
       /\ request'.data.step \in 1..4
       /\ response' = JsonRedirect(NextTarget(request'.data.step))
       /\ StepField[request'.data.step] \in DOMAIN Accumulator(session')
    THEN request'.data.step ELSE 0

\* C1: an answer for step N is accepted only when steps 1..N-1 of the current
\* run have already been answered.
C1_StrictlySequential ==
    [][ AcceptedStep # 0 =>
            \A k \in 1..(AcceptedStep - 1) : StepField[k] \in DOMAIN Accumulator(session) ]_vars

ProtectedEndpoints ==
    {"questionnaire", "questionnaire_next", "submit_questionnaire", "recommendations",
     "get_majors", "get_personality_types"}

\* C9: a request to an auth-protected endpoint made with no user_id in the session
\* is answered with a redirect to login, and changes neither the session (so not
\* the questionnaire accumulator) nor any table.
C9_UnauthenticatedRedirect ==
    [][ (request'.endpoint \in ProtectedEndpoints /\ "user_id" \notin DOMAIN session) =>
            /\ response'.kind = "redirect"
            /\ response'.target = UrlFor("login")
            /\ session' = session
            /\ db' = db ]_vars

\* C9 witness: after a signup, a stored submission and a logout, a submission
\* without user_id in the session has been answered with the redirect to login.
C9_Witness ==
    /\ request.endpoint = "submit_questionnaire"
    /\ "user_id" \notin DOMAIN session
    /\ response = LoginRedirect
    /\ users # <<>>
    /\ questionnaire_responses # <<>>

\* C10: after a completed run (all four steps answered), an answer for step 1
\* leaves the accumulator holding only the new step-1 answer.
C10_RestartClears ==
    [][ (AcceptedStep = 1 /\ DOMAIN Accumulator(session) = {StepField[k] : k \in 1..4}) =>
            Accumulator(session') = [analytical |-> request'.data.value] ]_vars

AllAnswers == {StepField[k] : k \in 1..4}

\* C12: no request to POST /questionnaire/next or GET /recommendations ends in an
\* unhandled error, and whenever GET /recommendations has got past its two
\* redirects with a catalog to score, the accumulator holds all four answers.
C12_ScoringHasAllAnswers ==
    /\ request.endpoint \in {"questionnaire_next", "recommendations"} =>
            response # ServerError
    /\ (request.endpoint = "recommendations" /\ response.kind # "redirect" /\ majors # <<>>) =>
            AllAnswers \subseteq DOMAIN Accumulator(session)

----------------------------------------------------------------------------
(* Claims about the submission and the store (SpecStore)                   *)

WithinRange(v) == Ge(v, 0) /\ Ge(MaxScore, v)

InvalidSubmission(data) ==
    \/ "scores" \notin DOMAIN data
    \/ ~(required_fields \subseteq DOMAIN data.scores)
    \/ \E f \in required_fields :
            \/ data.scores[f].type \notin {"number", "bool"}
            \/ ~WithinRange(data.scores[f].num)

Rejected ==
    /\ response'.kind = "json"
    /\ response'.status = "error"
    /\ response'.message # <<"Internal server error">>
    /\ db' = db
    /\ session' = session

\* C3: a submission whose body lacks 'scores', lacks one of the four score fields,
\* or has a score that is non-numeric or outside [0,10] is rejected with status
\* 'error' and a validation message, and leaves every table and the session key
\* 'scores' unchanged.
C3_InvalidRejected ==
    [][ (/\ request'.endpoint = "submit_questionnaire"
         /\ login_required(session)
         /\ InvalidSubmission(request'.data)) => Rejected ]_vars

\* C3, for the bodies in which no score is nan: the same statement holds.
C3_InvalidRejectedUnlessNaN ==
    [][ (/\ request'.endpoint = "submit_questionnaire"
         /\ login_required(session)
         /\ InvalidSubmission(request'.data)
         /\ request'.data # NaNBody) => Rejected ]_vars

RecommendationsOf(response_id, major_id) ==
    {i \in 1..Len(major_recommendations) :
        /\ major_recommendations[i].response_id = response_id
        /\ major_recommendations[i].major_id = major_id}

CompleteSubmissions ==
    /\ \A r \in 1..Len(questionnaire_responses), m \in 1..Len(majors) :
            Cardinality(RecommendationsOf(questionnaire_responses[r].id, majors[m].id)) = 1
    /\ \A i \in 1..Len(major_recommendations) :
            /\ \E r \in 1..Len(questionnaire_responses) :
                    questionnaire_responses[r].id = major_recommendations[i].response_id
            /\ \E m \in 1..Len(majors) : majors[m].id = major_recommendations[i].major_id

FailedAfterResponseInsert ==
    /\ request'.endpoint = "submit_questionnaire"
    /\ response'.kind = "json"
    /\ response'.status = "error"
    /\ response'.message = <<"Internal server error">>
    /\ response'.raised_at.at \in {"calculate_major_matches", "insert_recommendation", "commit"}

\* C4: in every committed state each questionnaire_responses row has exactly one
\* major_recommendations row per catalog major (and no recommendation row lacks
\* its response), and a submission that fails after the response insert leaves
\* neither its response row nor any of its recommendation rows committed.
C4_AllOrNothing ==
    /\ []CompleteSubmissions
    /\ [][ FailedAfterResponseInsert =>
                /\ questionnaire_responses' = questionnaire_responses
                /\ major_recommendations' = major_recommendations ]_vars

\* C4 witness: with one submission stored, a later one failed at its second
\* recommendation insert, after its response and first recommendation inserts.
C4_Witness ==
    /\ request.endpoint = "submit_questionnaire"
    /\ response.kind = "json"
    /\ response.status = "error"
    /\ response.message = <<"Internal server error">>
    /\ response.raised_at = FailAtRecommendation(2)
    /\ Len(questionnaire_responses) = 1
    /\ Len(major_recommendations) = 2

RegistryUnique ==
    \A i, j \in 1..Len(personality_types) :
        /\ personality_types[i].id = i
        /\ (personality_types[i].code = personality_types[j].code => i = j)

Resolved(req, resp) == req.endpoint = "get_personality_type_id" /\ resp.kind = "return"

\* C8: under sequential use the registry never holds two rows for one code, rows
\* are only appended (never edited or deleted), a resolve returns the id of the
\* one row holding its code, creating that row only when the code had none, and
\* resolving the same code twice returns the same id and adds no second row.
C8_RegistryIdempotent ==
    /\ []RegistryUnique
    /\ [][ /\ Len(personality_types') >= Len(personality_types)
            /\ SubSeq(personality_types', 1, Len(personality_types)) = personality_types
            /\ (Resolved(request', response') =>
                    /\ response'.value \in 1..Len(personality_types')
                    /\ personality_types'[response'.value].code = request'.type_code
                    /\ Cardinality(RowsWithCode(personality_types', request'.type_code)) = 1
                    /\ IF RowsWithCode(personality_types, request'.type_code) # {}
                       THEN personality_types' = personality_types
                       ELSE Len(personality_types') = Len(personality_types) + 1)
            /\ ((/\ Resolved(request, response)
                 /\ Resolved(request', response')
                 /\ request'.type_code = request.type_code) =>
                    /\ response'.value = response.value
                    /\ personality_types' = personality_types) ]_vars

\* C8 witness: ESTJ was resolved to row 1 while the registry already held a
\* second row, added after row 1 and so before this call: the call found its row.
C8_Witness ==
    /\ Resolved(request, response)
    /\ request.type_code = <<"E", "S", "T", "J">>
    /\ response.value = 1
    /\ Len(personality_types) = 2

----------------------------------------------------------------------------
(* Claims about overlapping resolves (SpecRace)                            *)

Returned(t) == threads[t].pc = "done"

InsertedBy(t) == Returned(t) /\ threads[t].result = None

\* The row with this id was inserted by a call whose SELECT had found no row.
CreatedAfterMiss(id) == \E t \in ThreadIds : InsertedBy(t) /\ threads[t].id = id

\* The rows no call of this run created: the registry as it was at the start.
RowsAtStart == (1..Len(personality_types)) \ {threads[t].id : t \in {u \in ThreadIds : InsertedBy(u)}}

RegisteredAtStart(type_code) ==
    \E i \in RowsAtStart : personality_types[i].code = type_code

\* C11: the get-or-create is a read-then-insert open to a race on a new code only.
\* Callers whose SELECTs both found no row and who both inserted receive different
\* ids; two callers of one code receive different ids only without a uniqueness
\* constraint and only when each id names a row inserted after an empty SELECT
\* (with two callers: their own two inserts); a new code has as many rows as
\* there were such inserts; and whatever the
\* interleaving, a resolve of a code registered at the start returns the id of the
\* row that was there and creates none.
C11_RaceOnlyOnNewCode ==
    /\ \A t \in ThreadIds :
            /\ Returned(t) => personality_types[threads[t].id].code = threads[t].type_code
            /\ RegisteredAtStart(threads[t].type_code) =>
                    /\ threads[t].pc \in {"select", "done"}
                    /\ Returned(t) => threads[t].id \in RowsAtStart
    /\ \A type_code \in ResolveCodes :
            /\ RegisteredAtStart(type_code) =>
                    Cardinality(RowsWithCode(personality_types, type_code)) = 1
            /\ ~RegisteredAtStart(type_code) =>
                    Cardinality(RowsWithCode(personality_types, type_code))
                        = Cardinality({t \in ThreadIds : /\ InsertedBy(t)
                                                          /\ threads[t].type_code = type_code})
            /\ unique_code => Cardinality(RowsWithCode(personality_types, type_code)) <= 1
    /\ \A t, u \in ThreadIds :
            (t # u /\ Returned(t) /\ Returned(u) /\ threads[t].type_code = threads[u].type_code) =>
                /\ (InsertedBy(t) /\ InsertedBy(u)) => threads[t].id # threads[u].id
                /\ threads[t].id # threads[u].id =>
                        /\ ~unique_code
                        /\ CreatedAfterMiss(threads[t].id)
                        /\ CreatedAfterMiss(threads[u].id)

\* C11 witness: two calls for one new code have both returned, with different
\* ids, and the registry holds two rows for that code.
C11_Witness ==
    \E t, u \in ThreadIds :
        /\ t # u
        /\ Returned(t) /\ Returned(u)
        /\ threads[t].type_code = threads[u].type_code
        /\ threads[t].id # threads[u].id
        /\ Cardinality(RowsWithCode(personality_types, threads[t].type_code)) = 2

====
